---- MODULE Spec2Model ----
(***************************************************************************)
(* metaetcd proxy server (package proxysvr): the meta-clock on the         *)
(* coordinator, the per-member MVCC stores, and the Range / Txn handlers    *)
(* that translate between meta-revisions and member-local revisions.       *)
(*                                                                         *)
(* Every network call to the coordinator or to a member is one atomic      *)
(* step; the handlers of different proxy processes interleave between      *)
(* those calls.                                                            *)
(***************************************************************************)
EXTENDS Integers, Sequences, FiniteSets, TLC

(* ------------------------------ bounds -------------------------------- *)
\* proxy processes / goroutines serving client requests
Procs == {1, 2}
\* member clusters of the pool
Members == {1, 2}
\* data keys: single-byte keys, raw-byte order is the order of the numbers
Keys == {1, 2}
\* payloads a client writes (byte strings "x", "y")
Payloads == {<<120>>, <<121>>}
\* client requests served in one behaviour of each workload
MaxClockOps == 3
MaxTxnOps == 2
MaxReadOps == 3
MaxLimitOps == 3
\* times the coordinator's meta-clock key is deleted behind the proxy's back
MaxLoss == 1
\* largest explicit revision / comparison target a client sends
MaxRev == 2
\* largest Limit of a range request
MaxLimit == 1
\* client requests and failed calls (coordinator or member) in one
\* behaviour of the workload with failures
MaxFaultOps == 2
MaxFaults == 1
\* create-watch requests a client sends on one watch connection
MaxWatches == 2
\* events the multiplexer forwards on one watch connection
MaxEvents == 1

(* ------------------- 8-byte little-endian encoding -------------------- *)
\* the low `n` bytes of a non-negative number, least significant first
RECURSIVE LEBytes(_, _)
LEBytes(v, n) ==
    IF n = 0 THEN <<>> ELSE <<v % 256>> \o LEBytes(v \div 256, n - 1)

RECURSIVE LEValue(_)
LEValue(b) ==
    IF Len(b) = 0 THEN 0 ELSE b[1] + 256 * LEValue(Tail(b))

Complement(b) == [i \in 1..Len(b) |-> 255 - b[i]]

\* binary.LittleEndian.PutUint64(buf, uint64(v)): two's complement, so a
\* negative int64 (uint64(0) - 1) is stored as the complement of -v - 1
PutUint64(v) ==
    IF v >= 0 THEN LEBytes(v, 8) ELSE Complement(LEBytes(-v - 1, 8))

\* int64(binary.LittleEndian.Uint64(b)) on the first 8 bytes of b
Uint64(b) ==
    LET w == SubSeq(b, 1, 8)
    IN IF w[8] >= 128 THEN -LEValue(Complement(w)) - 1 ELSE LEValue(w)

(* ------------------------------ scheme -------------------------------- *)
\* a put op carries payload || u64_le(metaRev)
AppendMetaRev(payload, buf) == payload \o buf

\* scheme.ResolveModRev: the embedded meta-rev replaces ModRevision and the
\* suffix is cut off; values shorter than 8 bytes are left alone
ResolveModRev(kv) ==
    IF Len(kv.value) < 8 THEN kv
    ELSE [kv EXCEPT !.mod = Uint64(SubSeq(kv.value, Len(kv.value) - 7, Len(kv.value))),
                    !.value = SubSeq(kv.value, 1, Len(kv.value) - 8)]

\* scheme.ResolveMetaRev on the coordinator's meta-clock kv: the stored
\* 8-byte offset plus the key's version (a put with ignore-value keeps the
\* offset and bumps the version, a fresh put starts at version 1)
ResolveMetaRev(kv) == Uint64(kv.value) + kv.ver

(* --------------------------- member stores ---------------------------- *)
\* A member is an MVCC store: revision 1 is the empty store and the i-th
\* committed transaction produces revision i + 1.  A commit records the ops
\* it applied, the put to the member's meta-clock key among them.
\* scheme.MetaKey, the reserved key of the meta-clock in every store
MetaKey == 0

HeaderRevision(h) == Len(h) + 1

\* the commits visible at revision rev (rev = 0: the latest revision)
Visible(h, rev) == IF rev = 0 \/ rev > HeaderRevision(h) THEN Len(h) ELSE rev - 1

\* indexes of the visible commits that touch key k
Touching(h, k, rev) ==
    {i \in 1..Visible(h, rev) : \E j \in 1..Len(h[i].ops) : h[i].ops[j].key = k}

Max(S) == CHOOSE x \in S : \A y \in S : y <= x
Min(S) == CHOOSE x \in S : \A y \in S : x <= y

LastOp(c, k) ==
    c.ops[Max({j \in 1..Len(c.ops) : c.ops[j].key = k})]

\* KV.Get(key) at a revision: the kvs of the key (zero or one)
GetKey(h, k, rev) ==
    LET T == Touching(h, k, rev)
    IN IF T = {} THEN <<>>
       ELSE LET i == Max(T)
                o == LastOp(h[i], k)
            IN IF o.t = "del" THEN <<>>
               ELSE <<[key |-> k, value |-> o.value, mod |-> i + 1]>>

\* the keys of a range request: a point read or [key, end)
Matching(req) ==
    IF req.end = 0 THEN {req.key} ELSE {k \in Keys : req.key <= k /\ k < req.end}

RECURSIVE Ascending(_)
Ascending(S) ==
    IF S = {} THEN <<>> ELSE <<Min(S)>> \o Ascending(S \ {Min(S)})

RECURSIVE Concat(_)
Concat(ss) == IF Len(ss) = 0 THEN <<>> ELSE Head(ss) \o Concat(Tail(ss))

Take(s, n) == SubSeq(s, 1, IF Len(s) < n THEN Len(s) ELSE n)

\* a member's KV.Range: the live keys of the request at req.rev in key
\* order, cut to req.limit; Count is the number of matching keys
MemberRange(h, req) ==
    LET ks == Ascending({k \in Matching(req) : GetKey(h, k, req.rev) # <<>>})
        all == Concat([i \in 1..Len(ks) |-> GetKey(h, ks[i], req.rev)])
    IN [kvs |-> IF req.limit > 0 THEN Take(all, req.limit) ELSE all,
        count |-> Len(all),
        more |-> req.limit > 0 /\ Len(all) > req.limit]

\* a member's comparison ModRevision(key) == target (0 for an absent key)
CompareHolds(h, c) ==
    LET kvs == GetKey(h, c.key, 0)
    IN (IF kvs = <<>> THEN 0 ELSE kvs[1].mod) = c.target

\* a member's KV.Txn: the comparisons decide the branch, whose ops commit
\* together at one new revision
MemberTxn(h, req) ==
    LET ok == \A i \in 1..Len(req.cmp) : CompareHolds(h, req.cmp[i])
        branch == IF ok THEN req.succ ELSE req.fail
    IN [h |-> IF branch = <<>> THEN h ELSE Append(h, [ops |-> branch]),
        succeeded |-> ok]

(* ------------------------------ requests ------------------------------ *)
PutOp(k, v) == [t |-> "put", key |-> k, value |-> v]
DelOp(k) == [t |-> "del", key |-> k, value |-> <<>>]
DataOps == {PutOp(k, v) : k \in Keys, v \in Payloads} \cup {DelOp(k) : k \in Keys}

\* Compare(ModRevision(key) == target)
Compares == {[key |-> k, target |-> r] : k \in Keys, r \in 0..MaxRev}

NoReq == [kind |-> "none", cmp |-> <<>>, succ |-> <<>>, fail |-> <<>>,
          key |-> 0, end |-> 0, rev |-> 0, limit |-> 0]

\* TxnRequest: at most one comparison, one op on success, at most one on failure
TxnReq(c, o, f) == [NoReq EXCEPT !.kind = "txn", !.cmp = c, !.succ = <<o>>, !.fail = f]

\* unconditional writes of one key: puts of "x", and puts of "x" and deletes
PutReqs == {TxnReq(<<>>, PutOp(k, <<120>>), <<>>) : k \in Keys}
WriteReqs == PutReqs \cup {TxnReq(<<>>, DelOp(k), <<>>) : k \in Keys}

\* conditional writes: the comparison is on the key the success branch
\* writes; the failure branch is empty or writes another key
CondReqs ==
    UNION {{TxnReq(c, PutOp(k, <<120>>), f) :
                c \in {<<>>} \cup {<<[key |-> k, target |-> r]>> : r \in 0..MaxRev},
                f \in {<<>>} \cup {<<PutOp(k2, <<121>>)>> : k2 \in Keys \ {k}}} :
           k \in Keys}

\* RangeRequest: a point read of one key, or the range over all data keys
PointReq(k, r) == [NoReq EXCEPT !.kind = "range", !.key = k, !.rev = r]
FanReq(r, l) == [NoReq EXCEPT !.kind = "range", !.key = Min(Keys), !.end = Max(Keys) + 1,
                              !.rev = r, !.limit = l]

NowReqs == {PointReq(Min(Keys), 0)}
\* point reads at every explicit revision of the key whose owner is any
\* member, unlimited ranges at now() and at the largest explicit revision
ReadReqs ==
    {PointReq(Max(Keys), r) : r \in 1..MaxRev} \cup {FanReq(r, 0) : r \in {0, MaxRev}}
LimitReqs == {FanReq(0, l) : l \in 1..MaxLimit}

NoResp == [kvs |-> <<>>, count |-> 0, more |-> FALSE, succeeded |-> FALSE,
           rev |-> 0, err |-> ""]

(* --------------------------- handler pieces --------------------------- *)
\* the keys a transaction references, in the order the validation meets them
TxnKeys(req) ==
    [i \in 1..Len(req.cmp) |-> req.cmp[i].key]
    \o [i \in 1..Len(req.succ) |-> req.succ[i].key]
    \o [i \in 1..Len(req.fail) |-> req.fail[i].key]

VARIABLES
    owner,      \* members.GetMemberForKey: the member that owns each data key
                \* (members are interchangeable: the first key's owner is member 1)
    clock,      \* the coordinator's kvs of scheme.MetaKey (zero or one kv)
    lock,       \* holder of coordinator.ClockReconstitutionLock, 0 when free
    mem,        \* the commit history of each member
    loc,        \* per process: position in its handler and the handler's locals
    nops,       \* requests started so far
    losses,     \* deletions of the coordinator's meta-clock key so far
    truth,      \* history: per data key, the payload and meta-rev of its latest committed write
    tickLog,    \* history: the values returned by tick(), in order of return
    txnMax,     \* history: the largest header revision of a Txn that returned Succeeded
    lastClock,  \* history: the meta-rev the coordinator's clock held last
    reconInfo,  \* history: what the latest reconstitution read and added
    gh,         \* history, per process: facts about the request in progress
    watch,      \* one watch connection: its stream, its tasks and what it sent
    faults      \* calls to the coordinator or to a member that have failed so far

vars == <<owner, clock, lock, mem, loc, nops, losses, truth, tickLog, txnMax,
          lastClock, reconInfo, gh, watch, faults>>

\* scheme.ValidateTxComparisons / scheme.ValidateTxOps: every key must have
\* the owner of the anchor, the first key met; anchor <<>> is "no key yet"
RECURSIVE ValidateKeys(_, _)
ValidateKeys(anchor, ks) ==
    IF ks = <<>> THEN [err |-> FALSE, key |-> anchor]
    ELSE IF anchor = <<>> THEN ValidateKeys(<<Head(ks)>>, Tail(ks))
    ELSE IF owner[Head(ks)] # owner[anchor[1]] THEN [err |-> TRUE, key |-> <<>>]
    ELSE ValidateKeys(anchor, Tail(ks))

ValidateTxComparisons(cmps) ==
    ValidateKeys(<<>>, [i \in 1..Len(cmps) |-> cmps[i].key])

ValidateTxOps(anchor, ops) ==
    ValidateKeys(anchor, [i \in 1..Len(ops) |-> ops[i].key])

\* a validation that forgets the failure branch
TxnValidateSkipFailure(req) ==
    LET c == ValidateTxComparisons(req.cmp)
    IN IF c.err THEN c ELSE ValidateTxOps(c.key, req.succ)

\* Txn: the three validations in order, the first error wins
TxnValidate(req) ==
    LET c == ValidateTxComparisons(req.cmp)
    IN IF c.err THEN c
       ELSE LET o == ValidateTxOps(c.key, req.succ)
            IN IF o.err THEN o ELSE ValidateTxOps(o.key, req.fail)

\* scheme.PreflightTxn for ModRevision(key) == metaRev against the member's
\* live kv: the embedded meta-rev, and whether the comparison is provably false
PreflightTxn(metaRev, kvs) ==
    LET modMetaRev == ResolveModRev(kvs[1]).mod
    IN [modMetaRev |-> modMetaRev, fail |-> modMetaRev # metaRev]

\* a preflight whose failure response is dropped
resolveModComparisonNoFail(h, key, metaRev) ==
    LET kvs == GetKey(h, key, 0)
    IN IF kvs = <<>> THEN [memberRev |-> 0, fail |-> FALSE]
       ELSE [memberRev |-> kvs[1].mod, fail |-> FALSE]

\* resolveModComparison: read the anchor key on the member; no kv gives
\* member rev 0, a provably false comparison gives the failure response,
\* otherwise the member-local mod-rev of the live kv
resolveModComparison(h, key, metaRev) ==
    LET kvs == GetKey(h, key, 0)
    IN IF kvs = <<>> THEN [memberRev |-> 0, fail |-> FALSE]
       ELSE IF PreflightTxn(metaRev, kvs).fail THEN [memberRev |-> 0, fail |-> TRUE]
       ELSE [memberRev |-> kvs[1].mod, fail |-> FALSE]

\* scheme.AppendMetaRevToTxOps: the suffix goes on the value of every put
AppendMetaRevToTxOps(buf, ops) ==
    [i \in 1..Len(ops) |->
        IF ops[i].t = "put" THEN [ops[i] EXCEPT !.value = AppendMetaRev(@, buf)]
        ELSE ops[i]]

\* a rewrite that puts the clock op on the success branch only
TxnRewriteSuccessOnly(req, metaRev) ==
    LET buf == PutUint64(metaRev)
        updateClockOp == PutOp(MetaKey, buf)
    IN [req EXCEPT !.succ = Append(AppendMetaRevToTxOps(buf, req.succ), updateClockOp),
                   !.fail = AppendMetaRevToTxOps(buf, req.fail)]

\* Txn: the request sent to the member, with the suffix on every put and
\* the put of the member's meta-clock key on both branches
TxnRewrite(req, metaRev) ==
    LET buf == PutUint64(metaRev)
        updateClockOp == PutOp(MetaKey, buf)
    IN [req EXCEPT !.succ = Append(AppendMetaRevToTxOps(buf, req.succ), updateClockOp),
                   !.fail = Append(AppendMetaRevToTxOps(buf, req.fail), updateClockOp)]

\* tick's coordinator transaction on a present key: put with ignore-value
TickTxn(kvs) == <<[kvs[1] EXCEPT !.ver = @ + 1]>>

\* the coordinator's KV.Put of the meta-clock key
CoordPut(kvs, value) ==
    <<[value |-> value, ver |-> IF kvs = <<>> THEN 1 ELSE kvs[1].ver + 1]>>

\* a reconstitution that stores the meta-rev itself
ReconOffsetNoDecrement(latestMetaRev) == latestMetaRev

\* reconstituteClock: uint64(latestMetaRev) - 1, the 64-bit wrap of 0 - 1 is
\* the int64 -1
ReconOffset(latestMetaRev) == latestMetaRev - 1

\* a resolver that also walks past a clock-write of exactly metaRev
RECURSIVE getMemberRevStrict(_, _, _)
getMemberRevStrict(h, metaRev, zeroKeyRev) ==
    LET kvs == GetKey(h, MetaKey, zeroKeyRev)
    IN IF kvs = <<>> THEN HeaderRevision(h)
       ELSE IF Uint64(kvs[1].value) >= metaRev
            THEN getMemberRevStrict(h, metaRev, kvs[1].mod - 1)
            ELSE kvs[1].mod

\* getMemberRev's loop from probe zeroKeyRev (0: read the latest)
RECURSIVE getMemberRevFrom(_, _, _)
getMemberRevFrom(h, metaRev, zeroKeyRev) ==
    LET kvs == GetKey(h, MetaKey, zeroKeyRev)
    IN IF kvs = <<>> THEN HeaderRevision(h)
       ELSE IF Uint64(kvs[1].value) > metaRev
            THEN getMemberRevFrom(h, metaRev, kvs[1].mod - 1)
            ELSE kvs[1].mod

getMemberRev(h, metaRev) == getMemberRevFrom(h, metaRev, 0)

\* a probe that stays on the clock-write just read
NextProbeSame(kv) == kv.mod

\* getMemberRev: zeroKeyRev = resp.Kvs[0].ModRevision - 1
NextProbe(kv) == kv.mod - 1

\* getMemberRev's loop run for at most `turns` iterations: whether it
\* returned, what it returned, and the probes it set on the way; a probe of
\* 0 is unset and reads the latest revision
RECURSIVE getMemberRevLoop(_, _, _, _, _)
getMemberRevLoop(h, metaRev, zeroKeyRev, probes, turns) ==
    IF turns = 0 THEN [returned |-> FALSE, rev |-> 0, probes |-> probes]
    ELSE LET kvs == GetKey(h, MetaKey, zeroKeyRev)
         IN IF kvs = <<>>
            THEN [returned |-> TRUE, rev |-> HeaderRevision(h), probes |-> probes]
            ELSE IF Uint64(kvs[1].value) > metaRev
                 THEN getMemberRevLoop(h, metaRev, NextProbe(kvs[1]),
                                       Append(probes, NextProbe(kvs[1])), turns - 1)
                 ELSE [returned |-> TRUE, rev |-> kvs[1].mod, probes |-> probes]

\* rangeWithClient against one member: the request at the member's revision
\* for metaRev, every kv resolved
rangeWithClient(h, req, metaRev) ==
    LET memberRev == getMemberRev(h, metaRev)
        r == MemberRange(h, [req EXCEPT !.rev = memberRev])
    IN [count |-> r.count,
        kvs |-> [i \in 1..Len(r.kvs) |-> ResolveModRev(r.kvs[i])]]

\* sort.Slice by raw key bytes
RECURSIVE SortByKey(_)
SortByKey(kvs) ==
    IF kvs = <<>> THEN <<>>
    ELSE LET i == CHOOSE i \in 1..Len(kvs) : \A j \in 1..Len(kvs) : kvs[i].key <= kvs[j].key
         IN <<kvs[i]>> \o SortByKey(SubSeq(kvs, 1, i - 1) \o SubSeq(kvs, i + 1, Len(kvs)))

\* a merge that truncates without sorting
RangeFinishNoSort(resp, req) ==
    IF req.limit # 0 /\ Len(resp.kvs) > req.limit
    THEN [resp EXCEPT !.kvs = Take(resp.kvs, req.limit), !.more = TRUE]
    ELSE resp

\* Range after the fan-out: sort and cut when more kvs than Limit were merged
RangeFinish(resp, req) ==
    IF req.limit # 0 /\ Len(resp.kvs) > req.limit
    THEN [resp EXCEPT !.kvs = Take(SortByKey(resp.kvs), req.limit), !.more = TRUE]
    ELSE resp

(* ------------------------------- state -------------------------------- *)
IdleLoc == [pc |-> "idle", req |-> NoReq, i |-> 0, key |-> <<>>, metaRev |-> 0,
            delta |-> 0, latestMetaRev |-> 0, todo |-> {}, resp |-> NoResp,
            counts |-> {0}]

NoGh == [scanErr |-> FALSE, sum |-> 0, ticked |-> FALSE, wrote |-> FALSE, cross |-> FALSE, provFalse |-> FALSE,
         cmpM |-> 0, cmpHeld |-> FALSE, nowFloor |-> 0, tfloor |-> 0,
         snap |-> [k \in Keys |-> <<>>], stale |-> {},
         firstTick |-> <<>>]

\* Watch before its tasks have run: the stream is open, the receive task is
\* in srv.Recv, the send task waits on ch, no watch was created
NoWatch == [stream |-> "open", recv |-> "recv", cur |-> 0, send |-> "wait",
            msg |-> <<>>, mux |-> [w \in 1..MaxWatches |-> "none"], created |-> 0,
            events |-> 0, sent |-> <<>>, errs |-> {}, handler |-> "wait"]

Init ==
    /\ owner \in {f \in [Keys -> Members] : f[Min(Keys)] = Min(Members)}
    /\ clock = <<>>
    /\ lock = 0
    /\ mem = [m \in Members |-> <<>>]
    /\ loc = [p \in Procs |-> IdleLoc]
    /\ nops = 0
    /\ losses = 0
    /\ truth = [k \in Keys |-> <<>>]
    /\ tickLog = <<>>
    /\ txnMax = 0
    /\ lastClock = <<>>
    /\ reconInfo = <<>>
    /\ gh = [p \in Procs |-> NoGh]
    /\ watch = NoWatch
    /\ faults = 0

MaxOf(s) == IF s = <<>> THEN 0 ELSE Max({s[i] : i \in 1..Len(s)})

\* history: the meta-rev the clock holds after a step that leaves it as kvs
Held(kvs) == IF kvs = <<>> THEN lastClock ELSE <<ResolveMetaRev(kvs[1])>>

NoClockChange == UNCHANGED <<clock, lastClock, reconInfo>>
NoMemberChange == UNCHANGED <<mem, truth, txnMax>>
Frame == UNCHANGED <<owner, losses, watch, faults>>

\* a call fails: one more failure, within the bound of the workload
Fault ==
    /\ faults < MaxFaults
    /\ faults' = faults + 1
    /\ UNCHANGED <<owner, losses, watch>>

\* ClockReconstitutionLock.Unlock by p: releases the lock if p holds it
Unlock(p) == IF lock = p THEN 0 ELSE lock

\* where a handler continues once tick() or now() has its meta-rev
After(l) == IF l.req.kind = "txn" THEN "commit" ELSE "range"

\* history: tick() returned v to p
Returned(p, v) ==
    IF loc[p].req.kind = "txn" THEN tickLog' = Append(tickLog, v)
    ELSE UNCHANGED tickLog

(* ------------------------------- clock -------------------------------- *)
\* tick: the coordinator transaction; ErrKeyNotFound leads to
\* reconstituteClock(ctx, 1)
Tick(p) ==
    /\ loc[p].pc = "tick"
    /\ IF clock = <<>>
       THEN /\ loc' = [loc EXCEPT ![p].pc = "lock", ![p].delta = 1]
            /\ gh' = [gh EXCEPT ![p].ticked = TRUE, ![p].tfloor = MaxOf(tickLog)]
            /\ UNCHANGED <<clock, lastClock, tickLog>>
       ELSE /\ clock' = TickTxn(clock)
            /\ lastClock' = Held(clock')
            /\ loc' = [loc EXCEPT ![p].pc = "commit",
                                  ![p].metaRev = ResolveMetaRev(clock'[1])]
            /\ gh' = [gh EXCEPT ![p].ticked = TRUE, ![p].tfloor = MaxOf(tickLog),
                                ![p].firstTick = IF clock[1].ver = 1 THEN reconInfo ELSE <<>>]
            /\ Returned(p, ResolveMetaRev(clock'[1]))
    /\ NoMemberChange /\ Frame
    /\ UNCHANGED <<lock, nops, reconInfo>>

\* now: read the coordinator's meta-clock key; absent leads to
\* reconstituteClock(ctx, 0)
Now(p) ==
    /\ loc[p].pc = "now"
    /\ IF clock = <<>>
       THEN loc' = [loc EXCEPT ![p].pc = "lock", ![p].delta = 0]
       ELSE loc' = [loc EXCEPT ![p].pc = "range",
                               ![p].metaRev = ResolveMetaRev(clock[1]),
                               ![p].resp.rev = ResolveMetaRev(clock[1])]
    /\ gh' = [gh EXCEPT ![p].nowFloor = txnMax]
    /\ NoClockChange /\ NoMemberChange /\ Frame
    /\ UNCHANGED <<lock, nops, tickLog>>

\* reconstituteClock: ClockReconstitutionLock.Lock
ReconLock(p) ==
    /\ loc[p].pc = "lock"
    /\ lock = 0
    /\ lock' = p
    /\ loc' = [loc EXCEPT ![p].pc = "recheck"]
    /\ NoClockChange /\ NoMemberChange /\ Frame
    /\ UNCHANGED <<nops, tickLog, gh>>

\* reconstituteClock: the second read under the lock; a present key is
\* returned as it is and the deferred Unlock runs
ReconRecheck(p) ==
    /\ loc[p].pc = "recheck"
    /\ IF clock # <<>>
       THEN /\ loc' = [loc EXCEPT ![p].pc = After(loc[p]),
                                  ![p].metaRev = ResolveMetaRev(clock[1]),
                                  ![p].resp.rev = ResolveMetaRev(clock[1])]
            /\ lock' = Unlock(p)
            /\ Returned(p, ResolveMetaRev(clock[1]))
       ELSE /\ loc' = [loc EXCEPT ![p].pc = "scan", ![p].latestMetaRev = 0,
                                  ![p].todo = Members]
            /\ UNCHANGED <<lock, tickLog>>
    /\ NoClockChange /\ NoMemberChange /\ Frame
    /\ UNCHANGED <<nops, gh>>

\* reconstituteClock: one member's task of IterateMembers reads the
\* member's meta-clock key and raises latestMetaRev under the mutex
ReconScan(p, m) ==
    /\ loc[p].pc = "scan"
    /\ m \in loc[p].todo
    /\ LET kvs == GetKey(mem[m], MetaKey, 0)
           rev == IF kvs = <<>> \/ Len(kvs[1].value) < 8 THEN 0 ELSE Uint64(kvs[1].value)
       IN loc' = [loc EXCEPT ![p].todo = @ \ {m},
                             ![p].latestMetaRev = IF rev > @ THEN rev ELSE @,
                             ![p].pc = IF loc[p].todo = {m} THEN "write" ELSE "scan"]
    /\ NoClockChange /\ NoMemberChange /\ Frame
    /\ UNCHANGED <<lock, nops, tickLog, gh>>

\* reconstituteClock: add delta, put the offset on the coordinator, return
\* latestMetaRev; the deferred Unlock runs
ReconWrite(p) ==
    /\ loc[p].pc = "write"
    /\ LET latestMetaRev == loc[p].latestMetaRev + loc[p].delta
       IN /\ clock' = CoordPut(clock, PutUint64(ReconOffset(latestMetaRev)))
          /\ lastClock' = Held(clock')
          /\ reconInfo' = <<[max |-> loc[p].latestMetaRev, delta |-> loc[p].delta]>>
          /\ loc' = [loc EXCEPT ![p].pc = After(loc[p]),
                                ![p].latestMetaRev = latestMetaRev,
                                ![p].metaRev = latestMetaRev,
                                ![p].resp.rev = latestMetaRev]
          /\ Returned(p, latestMetaRev)
    /\ lock' = Unlock(p)
    /\ NoMemberChange /\ Frame
    /\ UNCHANGED <<nops, gh>>

\* reconstituteClock: Lock returns an error without the lock; the result is
\* not looked at and the function goes on to the second read
ReconLockFail(p) ==
    /\ loc[p].pc = "lock"
    /\ loc' = [loc EXCEPT ![p].pc = "recheck"]
    /\ NoClockChange /\ NoMemberChange /\ Fault
    /\ UNCHANGED <<lock, nops, tickLog, gh>>

\* reconstituteClock: the second read fails (the caller's context may be
\* cancelled); the error is returned and the deferred Unlock runs
ReconRecheckFail(p) ==
    /\ loc[p].pc = "recheck"
    /\ loc' = [loc EXCEPT ![p].pc = "done", ![p].resp.err = "getting clock"]
    /\ lock' = Unlock(p)
    /\ NoClockChange /\ NoMemberChange /\ Fault
    /\ UNCHANGED <<nops, tickLog, gh>>

\* reconstituteClock: the read of one member's meta-clock key fails; the
\* task returns the error to IterateMembers, whose result is dropped
ReconScanFail(p, m) ==
    /\ loc[p].pc = "scan"
    /\ m \in loc[p].todo
    /\ loc' = [loc EXCEPT ![p].todo = @ \ {m},
                          ![p].pc = IF loc[p].todo = {m} THEN "write" ELSE "scan"]
    /\ gh' = [gh EXCEPT ![p].scanErr = TRUE]
    /\ NoClockChange /\ NoMemberChange /\ Fault
    /\ UNCHANGED <<lock, nops, tickLog>>

\* reconstituteClock: the put on the coordinator fails; the error is
\* returned and the deferred Unlock runs
ReconWriteFail(p) ==
    /\ loc[p].pc = "write"
    /\ loc' = [loc EXCEPT ![p].pc = "done", ![p].resp.err = "put",
                          ![p].latestMetaRev = @ + loc[p].delta]
    /\ lock' = Unlock(p)
    /\ NoClockChange /\ NoMemberChange /\ Fault
    /\ UNCHANGED <<nops, tickLog, gh>>

\* the failures reconstituteClock can meet
reconstituteClockFail(p) ==
    \/ ReconLockFail(p)
    \/ ReconRecheckFail(p)
    \/ \E m \in Members : ReconScanFail(p, m)
    \/ ReconWriteFail(p)

\* the coordinator's meta-clock key is deleted behind the proxy's back
ClockLoss ==
    /\ clock # <<>>
    /\ losses < MaxLoss
    /\ clock' = <<>>
    /\ losses' = losses + 1
    /\ NoMemberChange
    /\ UNCHANGED <<owner, lock, loc, nops, tickLog, lastClock, reconInfo, gh, watch, faults>>

(* -------------------------------- Txn --------------------------------- *)
\* the ModRevision comparisons with a non-zero target, from index i on
NextPreflight(req, i) ==
    LET S == {j \in i..Len(req.cmp) : req.cmp[j].target # 0}
    IN IF S = {} THEN 0 ELSE Min(S)

\* history: is the latest write of data key k the one with meta-rev r
LatestIs(k, r) == truth[k] # <<>> /\ truth[k][1].mod = r

\* Txn: validation; an error ends the request before any other call
TxnStart(p, req) ==
    /\ loc[p].pc \in {"idle", "done"}
    /\ nops' = nops + 1
    /\ LET v == TxnValidate(req)
           owners == {owner[TxnKeys(req)[j]] : j \in 1..Len(TxnKeys(req))}
           n == NextPreflight(req, 1)
       IN /\ loc' = [loc EXCEPT ![p] =
                 IF v.err
                 THEN [IdleLoc EXCEPT !.pc = "done", !.req = req,
                                      !.resp.err = "invalid-cross-shard-txn"]
                 ELSE [IdleLoc EXCEPT !.pc = IF n = 0 THEN "tick" ELSE "preflight",
                                      !.req = req, !.key = v.key, !.i = n]]
          /\ gh' = [gh EXCEPT ![p] = [NoGh EXCEPT !.cross = Cardinality(owners) > 1]]
    /\ NoClockChange /\ NoMemberChange /\ Frame
    /\ UNCHANGED <<lock, tickLog>>

\* Txn: one turn of the loop over req.Compare: resolveModComparison on the
\* anchor key; a failure response is returned at once, otherwise the
\* comparison's target becomes the member-local revision
Preflight(p) ==
    /\ loc[p].pc = "preflight"
    /\ LET l == loc[p]
           c == l.req.cmp[l.i]
           r == resolveModComparison(mem[owner[l.key[1]]], l.key[1], c.target)
           n == NextPreflight(l.req, l.i + 1)
       IN /\ loc' = [loc EXCEPT ![p] =
                 IF r.fail
                 THEN [l EXCEPT !.pc = "done", !.resp.succeeded = FALSE,
                                !.resp.rev = c.target]
                 ELSE [l EXCEPT !.req.cmp[l.i].target = r.memberRev,
                                !.i = n,
                                !.pc = IF n = 0 THEN "tick" ELSE "preflight"]]
          /\ gh' = [gh EXCEPT ![p].cmpM = c.target,
                              ![p].provFalse = truth[c.key] # <<>> /\ ~LatestIs(c.key, c.target)]
    /\ NoClockChange /\ NoMemberChange /\ Frame
    /\ UNCHANGED <<lock, nops, tickLog>>

\* history: the latest writes after the branch `ops` of a transaction with
\* meta-rev r has committed
Written(ops, r) ==
    [k \in Keys |->
        LET S == {j \in 1..Len(ops) : ops[j].key = k}
        IN IF S = {} THEN truth[k]
           ELSE LET o == ops[Max(S)]
                IN IF o.t = "del" THEN <<>>
                   ELSE <<[key |-> k, value |-> o.value, mod |-> r]>>]

\* Txn: the rewritten request runs on the owning member and the response
\* gets the meta-rev as header revision
Commit(p) ==
    /\ loc[p].pc = "commit"
    /\ LET l == loc[p]
           m == owner[l.key[1]]
           r == MemberTxn(mem[m], TxnRewrite(l.req, l.metaRev))
       IN /\ mem' = [mem EXCEPT ![m] = r.h]
          /\ loc' = [loc EXCEPT ![p].pc = "done",
                                ![p].resp.succeeded = r.succeeded,
                                ![p].resp.rev = l.metaRev]
          /\ truth' = Written(IF r.succeeded THEN l.req.succ ELSE l.req.fail, l.metaRev)
          /\ txnMax' = IF r.succeeded /\ l.metaRev > txnMax THEN l.metaRev ELSE txnMax
          /\ gh' = [gh EXCEPT ![p].wrote = TRUE,
                              ![p].cmpHeld = \A j \in 1..Len(l.req.cmp) :
                                                LatestIs(l.req.cmp[j].key, gh[p].cmpM)]
    /\ NoClockChange /\ Frame
    /\ UNCHANGED <<lock, nops, tickLog>>

(* ------------------------------- Range -------------------------------- *)
\* Range: the meta-rev is the request's Revision, or now() for Revision 0;
\* a point read goes to the owner of the key, a range to every member
RangeStart(p, req) ==
    /\ loc[p].pc \in {"idle", "done"}
    /\ nops' = nops + 1
    /\ loc' = [loc EXCEPT ![p] =
           [IdleLoc EXCEPT !.pc = IF req.rev # 0 THEN "range" ELSE "now",
                           !.req = req, !.metaRev = req.rev, !.resp.rev = req.rev,
                           !.todo = IF req.end = 0 THEN {owner[req.key]} ELSE Members]]
    /\ gh' = [gh EXCEPT ![p] = [NoGh EXCEPT !.snap = truth]]
    /\ NoClockChange /\ NoMemberChange /\ Frame
    /\ UNCHANGED <<lock, tickLog>>

\* rangeWithClient's `resp.Count += r.Count`: in the fan-out the tasks run
\* in parallel and the read-modify-write is outside the mutex, so the value
\* a task adds to is any value Count has held since the fan-out began (the
\* counts of l); the single-key path has one task
CountLoads(l) == IF l.req.end = 0 THEN {l.resp.count} ELSE l.counts

\* Range: rangeWithClient for one member (the only one of a point read, one
\* task of the fan-out); after the last one the kvs are cut to Limit
RangeMember(p, m) ==
    /\ loc[p].pc = "range"
    /\ m \in loc[p].todo
    /\ \E load \in CountLoads(loc[p]) :
         LET l == loc[p]
             r == rangeWithClient(mem[m], l.req, l.metaRev)
             resp == [l.resp EXCEPT !.count = load + r.count, !.kvs = @ \o r.kvs]
             last == l.todo = {m}
         IN /\ loc' = [loc EXCEPT ![p].todo = @ \ {m},
                                  ![p].counts = @ \cup {load + r.count},
                                  ![p].resp = IF last /\ l.req.end # 0
                                              THEN RangeFinish(resp, l.req) ELSE resp,
                                  ![p].pc = IF last THEN "done" ELSE "range"]
            /\ gh' = [gh EXCEPT ![p].sum = @ + r.count,
                                ![p].stale =
                          @ \cup {k \in Keys : owner[k] = m /\ truth[k] # gh[p].snap[k]}]
    /\ NoClockChange /\ NoMemberChange /\ Frame
    /\ UNCHANGED <<lock, nops, tickLog>>

(* ------------------------------- Watch -------------------------------- *)
\* the oldest start revision the watch multiplexer still retains
Retained == MaxRev

\* a watch action leaves the stores, the clock and the handlers alone
WatchFrame ==
    UNCHANGED <<owner, clock, lock, mem, loc, nops, losses, truth, tickLog,
                txnMax, lastClock, reconInfo, gh, faults>>

Created(w) == [WatchId |-> w, Created |-> TRUE]
Event(w) == [WatchId |-> w, Created |-> FALSE]

\* receive task: srv.Recv returns a create request with a start revision;
\* the task starts the watch's multiplexer task and goes on to `ch <- created`
WatchCreate(w, rev) ==
    /\ watch.recv = "recv" /\ watch.stream = "open"
    /\ w = watch.created + 1 /\ w <= MaxWatches
    /\ watch' = [watch EXCEPT !.created = w, !.cur = w, !.recv = "ack",
                              !.mux[w] = IF rev < Retained THEN "old" ELSE "new"]
    /\ WatchFrame

\* multiplexer task: WatchMux.Watch refuses a start revision older than its
\* retention window, and the task returns "starting rev is too old"
WatchMuxStart(w) ==
    /\ watch.mux[w] \in {"old", "new"}
    /\ watch' = IF watch.mux[w] = "old"
                THEN [watch EXCEPT !.mux[w] = "rejected",
                                   !.errs = @ \cup {"starting rev is too old"}]
                ELSE [watch EXCEPT !.mux[w] = "run"]
    /\ WatchFrame

\* the unbuffered ch: the receive task's `ch <- created` meets the send
\* task's `range ch`
WatchAck ==
    /\ watch.recv = "ack" /\ watch.send = "wait"
    /\ watch' = [watch EXCEPT !.recv = "recv", !.send = "send",
                              !.msg = <<Created(watch.cur)>>]
    /\ WatchFrame

\* multiplexer: an event of an accepted watch meets the send task on ch
WatchEvent(w) ==
    /\ watch.mux[w] = "run" /\ watch.send = "wait" /\ watch.stream # "broken"
    /\ watch.events < MaxEvents
    /\ watch' = [watch EXCEPT !.events = @ + 1, !.send = "send", !.msg = <<Event(w)>>]
    /\ WatchFrame

\* send task: srv.Send of the message taken from ch; an error ends the task
WatchSend ==
    /\ watch.send = "send"
    /\ watch' = IF watch.stream = "broken"
                THEN [watch EXCEPT !.send = "exit", !.msg = <<>>,
                                   !.errs = @ \cup {"send"}]
                ELSE [watch EXCEPT !.send = "wait", !.msg = <<>>,
                                   !.sent = Append(@, watch.msg[1])]
    /\ WatchFrame

\* the client closes its side of the stream: srv.Recv will return io.EOF
WatchClientClose ==
    /\ watch.stream = "open"
    /\ watch' = [watch EXCEPT !.stream = "eof"]
    /\ WatchFrame

\* the connection is lost or the client cancels: srv.Context() is done
WatchStreamBreak ==
    /\ watch.stream \in {"open", "eof"} /\ watch.handler = "wait"
    /\ watch' = [watch EXCEPT !.stream = "broken"]
    /\ WatchFrame

\* receive task: srv.Recv returns an error and the task returns it
WatchRecvError ==
    /\ watch.recv = "recv" /\ watch.stream \in {"eof", "broken"}
    /\ watch' = [watch EXCEPT !.recv = "exit",
                              !.errs = @ \cup {IF watch.stream = "eof" THEN "EOF" ELSE "recv"}]
    /\ WatchFrame

\* multiplexer task: WatchMux.Watch returns true once srv.Context() is done
WatchMuxEnd(w) ==
    /\ watch.mux[w] = "run" /\ watch.stream = "broken"
    /\ watch' = [watch EXCEPT !.mux[w] = "ended"]
    /\ WatchFrame

\* a task of the errgroup has not returned yet
WatchRunning ==
    \/ watch.recv # "exit"
    \/ watch.send # "exit"
    \/ \E w \in 1..MaxWatches : watch.mux[w] \in {"old", "new", "run"}

\* Watch: wg.Wait returns when every task has returned; the context the
\* errgroup derives is dropped, so an error of one task stops no other
WatchReturn ==
    /\ watch.handler = "wait" /\ ~WatchRunning
    /\ watch' = [watch EXCEPT !.handler = "returned"]
    /\ WatchFrame

\* the steps of the server's tasks on a watch connection
WatchTasks ==
    \/ \E w \in 1..MaxWatches : WatchMuxStart(w)
    \/ WatchAck
    \/ WatchSend
    \/ WatchRecvError
    \/ \E w \in 1..MaxWatches : WatchMuxEnd(w)
    \/ WatchReturn

\* reconstituteClock, step by step
reconstituteClock(p) ==
    \/ ReconLock(p)
    \/ ReconRecheck(p)
    \/ \E m \in Members : ReconScan(p, m)
    \/ ReconWrite(p)

Clock(p) ==
    \/ Tick(p)
    \/ Now(p)
    \/ reconstituteClock(p)

\* the clock service under unconditional writes, reads at now() and loss of
\* the coordinator's key
NextClock ==
    \/ \E p \in Procs, req \in PutReqs : nops < MaxClockOps /\ TxnStart(p, req)
    \/ \E p \in Procs, req \in NowReqs : nops < MaxClockOps /\ RangeStart(p, req)
    \/ \E p \in Procs : Clock(p)
    \/ \E p \in Procs : Commit(p)
    \/ \E p \in Procs, m \in Members : RangeMember(p, m)
    \/ ClockLoss

SpecClock == Init /\ [][NextClock]_vars

\* the clock service when calls to the coordinator and to members may fail
NextFault ==
    \/ \E p \in Procs, req \in PutReqs : nops < MaxFaultOps /\ TxnStart(p, req)
    \/ \E p \in Procs, req \in NowReqs : nops < MaxFaultOps /\ RangeStart(p, req)
    \/ \E p \in Procs : Clock(p)
    \/ \E p \in Procs : reconstituteClockFail(p)
    \/ \E p \in Procs : Commit(p)
    \/ \E p \in Procs, m \in Members : RangeMember(p, m)
    \/ ClockLoss

SpecFault == Init /\ [][NextFault]_vars

\* conditional transactions
NextTxn ==
    \/ \E p \in Procs, req \in CondReqs : nops < MaxTxnOps /\ TxnStart(p, req)
    \/ \E p \in Procs : Preflight(p)
    \/ \E p \in Procs : Tick(p)
    \/ \E p \in Procs : reconstituteClock(p)
    \/ \E p \in Procs : Commit(p)

SpecTxn == Init /\ [][NextTxn]_vars

\* point reads and unlimited ranges at every revision against
\* unconditional puts and deletes
NextRead ==
    \/ \E p \in Procs, req \in WriteReqs : nops < MaxReadOps /\ TxnStart(p, req)
    \/ \E p \in Procs, req \in ReadReqs : nops < MaxReadOps /\ RangeStart(p, req)
    \/ \E p \in Procs : Clock(p)
    \/ \E p \in Procs : Commit(p)
    \/ \E p \in Procs, m \in Members : RangeMember(p, m)

SpecRead == Init /\ [][NextRead]_vars

\* ranges with a Limit against unconditional puts
NextLimit ==
    \/ \E p \in Procs, req \in PutReqs : nops < MaxLimitOps /\ TxnStart(p, req)
    \/ \E p \in Procs, req \in LimitReqs : nops < MaxLimitOps /\ RangeStart(p, req)
    \/ \E p \in Procs : Clock(p)
    \/ \E p \in Procs : Commit(p)
    \/ \E p \in Procs, m \in Members : RangeMember(p, m)

SpecLimit == Init /\ [][NextLimit]_vars

\* one watch connection: create requests, events, client close, loss of the
\* connection
NextWatch ==
    \/ \E w \in 1..MaxWatches, rev \in 1..MaxRev : WatchCreate(w, rev)
    \/ \E w \in 1..MaxWatches : WatchEvent(w)
    \/ WatchClientClose
    \/ WatchStreamBreak
    \/ WatchTasks

SpecWatch == Init /\ [][NextWatch]_vars

\* the same with the goroutine scheduler: a task that can take a step
\* takes it; the client and the network owe nothing
SpecWatchFair == SpecWatch /\ WF_vars(WatchTasks)

(* ------------------------------- claims ------------------------------- *)
\* tick() has returned to the Txn handler of p
TickReturned(p) == gh[p].ticked /\ loc[p].pc \in {"commit", "done"}

\* now() has returned to the Range handler of p
NowReturned(p) ==
    loc[p].req.kind = "range" /\ loc[p].req.rev = 0 /\ loc[p].pc \in {"range", "done"}

\* C1 as claimed: the values returned by completed tick() calls are pairwise
\* distinct, and a tick() that starts after another has returned gets a
\* strictly greater value (also through reconstituteClock(delta = 1)).
C1_TicksDistinct ==
    /\ \A i, j \in 1..Len(tickLog) : i # j => tickLog[i] # tickLog[j]
    /\ \A p \in Procs : TickReturned(p) => loc[p].metaRev > gh[p].tfloor

\* C2 as claimed: after a Txn returned Succeeded with header revision R,
\* every now() that starts later returns a value >= R.
C2_NowAfterTxn ==
    \A p \in Procs : NowReturned(p) => loc[p].metaRev >= gh[p].nowFloor

\* the step is a tick() of p that found the clock key present
TickStep(p) == loc[p].pc = "tick" /\ clock # <<>> /\ loc'[p].pc = "commit"

\* C3 as claimed: the meta-rev held by the coordinator's meta-clock never
\* decreases, across loss and reconstitution too, and a tick() that does not
\* reconstitute advances it by exactly one.
C3_ClockMonotone ==
    [][/\ (clock' # <<>> /\ lastClock # <<>>)
            => ResolveMetaRev(clock'[1]) >= lastClock[1]
       /\ \A p \in Procs :
            TickStep(p) => ResolveMetaRev(clock'[1]) = ResolveMetaRev(clock[1]) + 1]_vars

RangeDone(p) == loc[p].req.kind = "range" /\ loc[p].pc = "done"

\* history: the writes that were the latest of their key when the Range of
\* p began and still were when the Range read the owning member
Standing(p) ==
    {gh[p].snap[k][1] : k \in {x \in Matching(loc[p].req) :
                                  gh[p].snap[x] # <<>> /\ x \notin gh[p].stale}}

Returns(p) == {loc[p].resp.kvs[i] : i \in 1..Len(loc[p].resp.kvs)}

\* C4: a key whose latest write committed with meta-rev R before a point
\* Range or an unlimited fan-out Range began, and was not overwritten or
\* deleted before the Range read its member, is returned by a Range at any
\* meta-rev M >= R with the payload written and ModRevision = R.
C4_ReadSeesWrite ==
    \A p \in Procs :
        RangeDone(p) =>
            \A e \in Standing(p) : e.mod <= loc[p].metaRev => e \in Returns(p)

\* a Range returned a standing write of an earlier meta-rev from a member
\* that had committed other transactions as well
C4_Witness ==
    \E p \in Procs :
        /\ RangeDone(p)
        /\ \E e \in Standing(p) :
              /\ e.mod < loc[p].metaRev /\ e \in Returns(p)
              /\ Len(mem[owner[e.key]]) >= 2

\* the Txn handler of p has returned the member's response
TxnDone(p) == loc[p].req.kind = "txn" /\ loc[p].pc = "done" /\ gh[p].wrote

\* C5 as claimed: a Txn with Compare(ModRevision(k) == R), R # 0, returns
\* Succeeded only if, when the member applied it, k existed and its latest
\* write carried meta-rev R.
C5_CompareExact ==
    \A p \in Procs :
        (TxnDone(p) /\ gh[p].cmpM # 0 /\ loc[p].resp.succeeded) => gh[p].cmpHeld

\* a fan-out Range with Limit L that met more than L live keys, all of them
\* written at or before its meta-rev, none changing while it ran
Limited(p) ==
    /\ RangeDone(p) /\ loc[p].req.end # 0 /\ loc[p].req.limit > 0
    /\ gh[p].stale = {}
    /\ \A e \in Standing(p) : e.mod <= loc[p].metaRev
    /\ Cardinality(Standing(p)) > loc[p].req.limit

\* the n smallest keys of a set of kvs
Smallest(S, n) == {e \in S : Cardinality({f \in S : f.key < e.key}) < n}

\* C7: a fan-out Range with Limit = L > 0 over N > L matching keys returns
\* exactly the L kvs with the smallest keys among all members' matching
\* keys, however the keys are spread over the members.
C7_LimitSmallest ==
    \A p \in Procs :
        Limited(p) =>
            /\ Len(loc[p].resp.kvs) = loc[p].req.limit
            /\ Returns(p) = Smallest(Standing(p), loc[p].req.limit)

\* a limited Range cut the kvs of keys that live on different members
C7_Witness ==
    \E p \in Procs :
        /\ Limited(p)
        /\ \E e, f \in Standing(p) : owner[e.key] # owner[f.key]

\* C8 as claimed: a fan-out Range with Limit = L > 0 answers More = true
\* whenever more than L keys match, also when one member owns them all.
C8_MoreSet ==
    \A p \in Procs : Limited(p) => loc[p].resp.more

\* C9: a Txn whose ModRevision comparison is provably false against the
\* member's live anchor key returns Succeeded = false at once: it never
\* ticks the coordinator clock and never sends a transaction to the member.
C9_PreflightFailNoEffect ==
    \A p \in Procs :
        gh[p].provFalse =>
            /\ loc[p].pc = "done" /\ loc[p].resp.err = ""
            /\ ~loc[p].resp.succeeded
            /\ ~gh[p].ticked /\ ~gh[p].wrote

\* a Txn failed preflight against a key an earlier Txn had written
C9_Witness ==
    \E p \in Procs :
        /\ gh[p].provFalse /\ loc[p].pc = "done"
        /\ \E m \in Members : mem[m] # <<>>

\* C10: a Txn that references keys of more than one owner is rejected with
\* invalid-cross-shard-txn before any tick and before any member request.
C10_CrossShardRejected ==
    \A p \in Procs :
        gh[p].cross =>
            /\ loc[p].pc = "done" /\ loc[p].resp.err = "invalid-cross-shard-txn"
            /\ ~gh[p].ticked /\ ~gh[p].wrote

\* a cross-shard Txn was rejected after other transactions had committed
C10_Witness ==
    \E p \in Procs :
        /\ gh[p].cross /\ loc[p].pc = "done"
        /\ \E m \in Members : mem[m] # <<>>

\* the ops of commit c on the member's meta-clock key / on data keys
ClockOps(c) == {j \in 1..Len(c.ops) : c.ops[j].key = MetaKey}
DataPuts(c) == {j \in 1..Len(c.ops) : c.ops[j].key # MetaKey /\ c.ops[j].t = "put"}

\* the last 8 bytes of a stored value
Suffix(v) == SubSeq(v, Len(v) - 7, Len(v))

\* the branch of its request the member took for the finished Txn of p
BranchTaken(p) ==
    IF loc[p].resp.succeeded THEN loc[p].req.succ ELSE loc[p].req.fail

\* C11: every transaction committed on a member, on its success branch or
\* on its failure branch, puts the member's meta-clock key with exactly the
\* meta-rev tick() returned for it, in the same commit as its other ops: the
\* member's meta-clock value after the commit is that meta-rev and every
\* data value written by the commit carries the same 8-byte suffix.
C11_ClockWriteInclusion ==
    /\ \A m \in Members : \A i \in 1..Len(mem[m]) :
          LET c == mem[m][i]
              now == GetKey(SubSeq(mem[m], 1, i), MetaKey, 0)
          IN /\ Cardinality(ClockOps(c)) = 1
             /\ now # <<>> /\ now[1].mod = i + 1
             /\ \E n \in 1..Len(tickLog) : now[1].value = PutUint64(tickLog[n])
             /\ \A j \in DataPuts(c) :
                   Len(c.ops[j].value) >= 8 /\ Suffix(c.ops[j].value) = now[1].value
    /\ \A p \in Procs :
          TxnDone(p) =>
              \E i \in 1..Len(mem[owner[loc[p].key[1]]]) :
                  LET c == mem[owner[loc[p].key[1]]][i]
                      buf == PutUint64(loc[p].metaRev)
                  IN /\ Uint64(buf) = loc[p].metaRev
                     /\ c.ops = Append(AppendMetaRevToTxOps(buf, BranchTaken(p)),
                                       PutOp(MetaKey, buf))

\* a member took the failure branch of a Txn after it had committed the
\* success branch of an earlier one
C11_Witness ==
    \E p \in Procs :
        /\ TxnDone(p) /\ ~loc[p].resp.succeeded
        /\ Len(mem[owner[loc[p].key[1]]]) >= 2

\* a task of the watch connection has returned an error
WatchTaskFailed == watch.errs # {}

\* C12 as claimed: once the receive task (also on the client's EOF), the
\* send task or a multiplexer task has returned an error, the Watch handler
\* eventually returns.
C12_WatchTerminates == WatchTaskFailed ~> (watch.handler = "returned")

\* the created acknowledgements delivered to the client
Acked == {watch.sent[i].WatchId : i \in {j \in 1..Len(watch.sent) : watch.sent[j].Created}}

\* C13 as claimed: a created acknowledgement reaches the client only for a
\* watch the multiplexer accepted; a watch whose start revision the
\* multiplexer rejected as too old gets none.
C13_AckOnlyAccepted ==
    \A w \in 1..MaxWatches : watch.mux[w] = "rejected" => w \notin Acked

\* reconstituteClock has returned to p after a member read had failed
ScanFailed(p) == gh[p].scanErr /\ loc[p].pc \notin {"scan", "write"}

\* C14 as claimed: when the read of a member's meta-clock key fails during
\* reconstituteClock, the now() or tick() that called it returns an error
\* and the coordinator's meta-clock key is not written.
C14_ScanErrorPropagates ==
    \A p \in Procs : ScanFailed(p) => (loc[p].resp.err # "" /\ clock = <<>>)

\* the processes between the double-check read and the coordinator write
InSection == {p \in Procs : loc[p].pc \in {"scan", "write"}}

\* C19 as claimed: at most one process is between the double-check read and
\* the coordinator write, also when Lock returned without the lock, and
\* no process keeps the lock after reconstituteClock has returned.
C19_LockExcludes ==
    /\ Cardinality(InSection) <= 1
    /\ \A p \in Procs : lock = p => loc[p].pc \in {"recheck", "scan", "write"}

\* C15 as claimed: a Range at meta-rev M returns no kv whose ModRevision
\* (the embedded meta-rev) is greater than M, also when M is lower than the
\* meta-rev of the member's first clock-write and when transactions with
\* higher meta-revs committed on the member before lower ones.
C15_SnapshotBounded ==
    \A p \in Procs :
        RangeDone(p) => \A e \in Returns(p) : e.mod <= loc[p].metaRev

\* the meta-rev the i-th commit of member m put on the member's meta-clock key
ClockWrite(m, i) == Uint64(LastOp(mem[m][i], MetaKey).value)

\* C16 as claimed: on every member the meta-revs of successive writes of
\* the member's meta-clock key are strictly increasing in member-local
\* revision order, for every interleaving of concurrent Txns.
C16_MemberClockIncreasing ==
    \A m \in Members : \A i, j \in 1..Len(mem[m]) :
        i < j => ClockWrite(m, i) < ClockWrite(m, j)

\* C20 as claimed: every meta-rev returned by now() or tick() is >= 1, the
\* first now() on a fresh system included.
C20_MetaRevPositive ==
    \A p \in Procs : (NowReturned(p) \/ TickReturned(p)) => loc[p].metaRev >= 1

\* getMemberRev on member m for target M, given one iteration more than
\* the member has revisions
Resolve(m, M) == getMemberRevLoop(mem[m], M, 0, <<>>, HeaderRevision(mem[m]) + 1)

\* C17: getMemberRev terminates for every target meta-rev on every member
\* history: every iteration that goes on sets a probe that is a revision of
\* the member (>= 1) and strictly smaller than the one before, so the loop
\* returns within as many iterations as the member has revisions.
C17_GetMemberRevTerminates ==
    \A m \in Members : \A M \in 0..MaxRev :
        LET r == Resolve(m, M)
        IN /\ r.returned
           /\ r.rev = getMemberRev(mem[m], M)
           /\ Len(r.probes) <= Len(mem[m])
           /\ \A i \in 1..Len(r.probes) :
                 /\ r.probes[i] >= 1
                 /\ i > 1 => r.probes[i] < r.probes[i - 1]

\* the loop walked back over two clock-writes of a member before it returned
C17_Witness ==
    \E m \in Members : \E M \in 0..MaxRev : Len(Resolve(m, M).probes) >= 2

\* C18 as claimed: the Count of a fan-out Range is the sum of the Counts
\* the members returned, for every interleaving of the per-member tasks.
C18_CountIsSum ==
    \A p \in Procs :
        (RangeDone(p) /\ loc[p].req.end # 0) => loc[p].resp.count = gh[p].sum
====
